---- MODULE Spec2Model ----
(***************************************************************************)
(* A model of the tree_sitter Ruby extension (ext/tree_sitter/src): the    *)
(* process-wide language registry, the Parser, the Tree and the Node       *)
(* handles that relocate themselves by byte range.                         *)
(*                                                                         *)
(* Strings are sequences of bytes (Rust's String is valid UTF-8).  The     *)
(* parsing engine (the tree_sitter crate) is outside the repository; it is *)
(* modelled by a small grammar over two characters, "a" (one byte, 97) and *)
(* "e-acute" (two bytes, 195 169), and by the engine's documented          *)
(* behaviour for resumed and hinted parses.                                *)
(***************************************************************************)
EXTENDS Integers, Sequences, FiniteSets, TLC

VARIABLES
    registry,        \* LANGUAGES: name -> LoadedLanguage or NoEntry
    refcount,        \* per module path: the Library objects currently open
    regLog,          \* history: name -> grammar of its last successful register
    lang,            \* the Language handle the host holds (from lookup)
    language_name,   \* Parser.language_name
    timeout_micros,  \* Parser.timeout_micros
    inner,           \* Parser.inner: the engine's committed grammar and resume state
    sinceReset,      \* history: "reset"/"discarded" after reset(), then what the next parse was
    tree,            \* the Tree the host holds
    node,            \* the Node the host holds
    ret,             \* the last operation and what it returned
    crashed,         \* the process died in undefined behaviour
    lock,            \* LANGUAGES' RwLock: the threads holding it shared, or the one holding it exclusively
    threads          \* per host thread: the registry call it is in and its position in it

vars == <<registry, refcount, regLog, lang, language_name, timeout_micros,
          inner, sinceReset, tree, node, ret, crashed, lock, threads>>

(***************************************************************************)
(* Bounds and inputs                                                       *)
(***************************************************************************)
\* longest source, in characters
MaxLen == 2
\* largest timeout the host sets, in microseconds
MaxTimeout == 1
\* largest elapsed time a progress check observes, in microseconds
MaxElapsed == 2
\* most progress checks the engine makes in one parse
MaxChecks == 2

Names == {"x", "y"}
\* module paths on disk: "A" exports tree_sitter_x and tree_sitter_y,
\* "B" exports tree_sitter_x only, "C" exports a tree_sitter_x generated for an
\* ABI version the engine does not accept, and no file exists at "nofile"
Paths == {"A", "B", "C", "nofile"}

Loadable(path) == path \in {"A", "B", "C"}

Exports(path) ==
    IF path = "A" THEN {"x", "y"} ELSE IF path \in {"B", "C"} THEN {"x"} ELSE {}

\* the two characters of the modelled sources, as UTF-8
CharA == <<97>>
CharE == <<195, 169>>

RECURSIVE SourcesOfLen(_)
SourcesOfLen(n) ==
    IF n = 0 THEN {<<>>}
    ELSE {s \o c : s \in SourcesOfLen(n - 1), c \in {CharA, CharE}}

Sources == UNION {SourcesOfLen(n) : n \in 0..MaxLen}

\* the sources of the registry and timing scenarios: at most one character
ShortSources == {<<>>, CharA, CharE}

(***************************************************************************)
(* Option values                                                           *)
(***************************************************************************)
NoEntry == [absent |-> "entry"]
NoGrammar == [absent |-> "grammar"]
NoLanguage == [absent |-> "language"]
NoPending == [absent |-> "pending"]
NoTree == [absent |-> "tree"]
NoNode == [absent |-> "node"]
NoName == "none"

(***************************************************************************)
(* Language registry (language.rs)                                         *)
(***************************************************************************)
\* the grammar the entry symbol tree_sitter_<name> of a module returns
LanguageFn(path, name) == [module |-> path, sym |-> name]

LoadedLanguage(language, library) == [language |-> language, library |-> library]

\* Library::new: one more open handle on the module
Library_new(rc, path) == [rc EXCEPT ![path] = @ + 1]

\* drop(Library): dlclose, one open handle fewer
Library_drop(rc, path) == [rc EXCEPT ![path] = @ - 1]

\* a module is mapped while some Library on it is open
Resident(path) == refcount[path] > 0

\* an insert into a map that holds one entry at a time
insert_single(reg, name, entry) == [n \in Names |-> IF n = name THEN entry ELSE NoEntry]

\* HashMap::insert keeping the entry already present (first write wins)
insert_keep_first(reg, name, entry) ==
    IF reg[name] = NoEntry THEN [reg EXCEPT ![name] = entry] ELSE reg

\* HashMap::insert: the new entry replaces the one under the same key
insert(reg, name, entry) == [reg EXCEPT ![name] = entry]

\* HashMap::get
get(reg, name) == reg[name]

\* HashMap::keys
keys(reg) == {n \in Names : reg[n] # NoEntry}

\* the orders in which a HashMap can yield a set of keys
Orders(S) ==
    {s \in [1..Cardinality(S) -> S] : \A i, j \in 1..Cardinality(S) : s[i] = s[j] => i = j}

\* the wrapped Language handle
Language(name, ts) == [name |-> name, inner |-> ts]

\* get_language_internal: the raw grammar, or the not-found error
get_language_internal(name) ==
    IF get(registry, name) = NoEntry
    THEN [result |-> "NotFoundError", inner |-> NoGrammar]
    ELSE [result |-> "Ok", inner |-> get(registry, name).language]

\* register_language that takes the old entry of the name out before it loads the
\* new module
register_language_evict_first(name, path) ==
    /\ ~crashed
    /\ LET evicted == [registry EXCEPT ![name] = NoEntry]
           closed == IF registry[name] = NoEntry THEN refcount
                     ELSE Library_drop(refcount, registry[name].library)
       IN  IF ~Loadable(path)
           THEN /\ ret' = [op |-> "register_language", name |-> name, path |-> path,
                           result |-> "LoadError"]
                /\ registry' = evicted
                /\ refcount' = closed
                /\ UNCHANGED regLog
           ELSE IF name \notin Exports(path)
           THEN /\ ret' = [op |-> "register_language", name |-> name, path |-> path,
                           result |-> "SymbolError"]
                /\ registry' = evicted
                /\ refcount' = closed
                /\ UNCHANGED regLog
           ELSE /\ registry' = insert(evicted, name,
                                      LoadedLanguage(LanguageFn(path, name), path))
                /\ refcount' = Library_new(closed, path)
                /\ regLog' = [regLog EXCEPT ![name] = LanguageFn(path, name)]
                /\ ret' = [op |-> "register_language", name |-> name, path |-> path,
                           result |-> "Ok"]
    /\ UNCHANGED <<lang, language_name, timeout_micros, inner, sinceReset, tree,
                   node, crashed>>
    /\ UNCHANGED <<lock, threads>>

\* register_language(name, library_path)
register_language(name, path) ==
    /\ ~crashed
    /\ IF ~Loadable(path)
       THEN /\ ret' = [op |-> "register_language", name |-> name, path |-> path,
                       result |-> "LoadError"]
            /\ UNCHANGED <<registry, refcount, regLog>>
       ELSE IF name \notin Exports(path)
       THEN \* the library was opened and is dropped again on the early return
            /\ ret' = [op |-> "register_language", name |-> name, path |-> path,
                       result |-> "SymbolError"]
            /\ refcount' = Library_drop(Library_new(refcount, path), path)
            /\ UNCHANGED <<registry, regLog>>
       ELSE LET opened == Library_new(refcount, path)
                entry == LoadedLanguage(LanguageFn(path, name), path)
            IN  /\ registry' = insert(registry, name, entry)
                \* insert() returns the entry it displaced, which is dropped at once
                /\ refcount' = IF registry[name] = NoEntry THEN opened
                               ELSE Library_drop(opened, registry[name].library)
                /\ regLog' = [regLog EXCEPT ![name] = LanguageFn(path, name)]
                /\ ret' = [op |-> "register_language", name |-> name, path |-> path,
                           result |-> "Ok"]
    /\ UNCHANGED <<lang, language_name, timeout_micros, inner, sinceReset, tree,
                   node, crashed>>
    /\ UNCHANGED <<lock, threads>>

\* get_language(name): a Language handle, which the host keeps
get_language(name) ==
    /\ ~crashed
    /\ IF get(registry, name) = NoEntry
       THEN /\ ret' = [op |-> "get_language", name |-> name,
                       result |-> "NotFoundError", value |-> NoLanguage]
            /\ lang' = lang
       ELSE /\ ret' = [op |-> "get_language", name |-> name, result |-> "Ok",
                       value |-> Language(name, get(registry, name).language)]
            /\ lang' = Language(name, get(registry, name).language)
    /\ UNCHANGED <<registry, refcount, regLog, language_name, timeout_micros,
                   inner, sinceReset, tree, node, crashed>>
    /\ UNCHANGED <<lock, threads>>

\* list_languages(): the keys, in the order the map yields them
list_languages ==
    /\ ~crashed
    /\ \E s \in Orders(keys(registry)) :
          ret' = [op |-> "list_languages", result |-> "Ok", value |-> s]
    /\ UNCHANGED <<registry, refcount, regLog, lang, language_name,
                   timeout_micros, inner, sinceReset, tree, node, crashed>>
    /\ UNCHANGED <<lock, threads>>

\* the host lets go of its Language handle (garbage collection)
ForgetLanguage ==
    /\ ~crashed
    /\ lang # NoLanguage
    /\ lang' = NoLanguage
    /\ ret' = [op |-> "forget_language"]
    /\ UNCHANGED <<registry, refcount, regLog, language_name, timeout_micros,
                   inner, sinceReset, tree, node, crashed>>
    /\ UNCHANGED <<lock, threads>>

(***************************************************************************)
(* The registry under several host threads (language.rs).  LANGUAGES is a  *)
(* std::sync::RwLock around the HashMap; each call is a sequence of steps  *)
(* of one thread: take the lock, work on the map, let the guard go at the  *)
(* end of the function.  HashMap::insert is not one machine step: between  *)
(* its start and its end the entry of that key is torn.                    *)
(***************************************************************************)
Threads == {"t1", "t2", "t3"}

NoWriter == "none"
NoSeen == [absent |-> "seen"]

\* an entry in the middle of HashMap::insert
Torn == [absent |-> "torn"]

\* RwLock::new: held by nobody
RwLock_new == [readers |-> {}, writer |-> NoWriter]

\* a thread outside every registry call, with what its last call returned
Idle(op, result, seen) == [pc |-> "idle", op |-> op, result |-> result, seen |-> seen]

\* LANGUAGES.write() granted although readers hold the lock
RwLock_write_shared(l, t) ==
    IF l.writer = NoWriter
    THEN [granted |-> TRUE, lock |-> [l EXCEPT !.writer = t]]
    ELSE [granted |-> FALSE, lock |-> l]

\* LANGUAGES.write(): granted when nobody holds the lock
RwLock_write(l, t) ==
    IF l.writer = NoWriter /\ l.readers = {}
    THEN [granted |-> TRUE, lock |-> [l EXCEPT !.writer = t]]
    ELSE [granted |-> FALSE, lock |-> l]

\* LANGUAGES.read(): granted when no writer holds the lock
RwLock_read(l, t) ==
    IF l.writer = NoWriter
    THEN [granted |-> TRUE, lock |-> [l EXCEPT !.readers = @ \cup {t}]]
    ELSE [granted |-> FALSE, lock |-> l]

\* drop of a write guard
RwLock_write_unlock(l, t) == [l EXCEPT !.writer = NoWriter]

\* drop of a read guard
RwLock_read_unlock(l, t) == [l EXCEPT !.readers = @ \ {t}]

\* what the thread steps leave alone: the Parser, the Tree and the Node
ThreadFrame ==
    UNCHANGED <<lang, language_name, timeout_micros, inner, sinceReset, tree, node,
                ret, crashed>>

\* register_language, up to the lock: open the module and find the entry symbol
register_load(t, name, path) ==
    /\ threads[t].pc = "idle"
    /\ IF ~Loadable(path)
       THEN /\ threads' = [threads EXCEPT ![t] = Idle("register_language", "LoadError", NoSeen)]
            /\ UNCHANGED refcount
       ELSE IF name \notin Exports(path)
       THEN /\ threads' = [threads EXCEPT ![t] = Idle("register_language", "SymbolError", NoSeen)]
            /\ refcount' = Library_drop(Library_new(refcount, path), path)
       ELSE /\ threads' = [threads EXCEPT ![t] =
                              [pc |-> "write", op |-> "register_language", name |-> name,
                               entry |-> LoadedLanguage(LanguageFn(path, name), path)]]
            /\ refcount' = Library_new(refcount, path)
    /\ UNCHANGED <<registry, regLog, lock>>
    /\ ThreadFrame

\* register_language: LANGUAGES.write()
register_write(t) ==
    /\ threads[t].pc = "write"
    /\ RwLock_write(lock, t).granted
    /\ lock' = RwLock_write(lock, t).lock
    /\ threads' = [threads EXCEPT ![t].pc = "insert"]
    /\ UNCHANGED <<registry, refcount, regLog>>
    /\ ThreadFrame

\* register_language: registry.insert begins, the entry of the key is torn
register_insert_begin(t) ==
    /\ threads[t].pc = "insert"
    /\ registry' = [registry EXCEPT ![threads[t].name] = Torn]
    /\ threads' = [threads EXCEPT ![t] =
                      [pc |-> "inserting", op |-> "register_language", name |-> threads[t].name,
                       entry |-> threads[t].entry, displaced |-> registry[threads[t].name]]]
    /\ UNCHANGED <<refcount, regLog, lock>>
    /\ ThreadFrame

\* register_language: registry.insert ends, the displaced entry is dropped
register_insert_end(t) ==
    /\ threads[t].pc = "inserting"
    /\ registry' = insert(registry, threads[t].name, threads[t].entry)
    /\ refcount' = IF threads[t].displaced \in {NoEntry, Torn} THEN refcount
                   ELSE Library_drop(refcount, threads[t].displaced.library)
    /\ regLog' = [regLog EXCEPT ![threads[t].name] = threads[t].entry.language]
    /\ threads' = [threads EXCEPT ![t] =
                      [pc |-> "inserted", op |-> "register_language", name |-> threads[t].name]]
    /\ UNCHANGED lock
    /\ ThreadFrame

\* register_language: Ok(()), the write guard goes out of scope
register_return(t) ==
    /\ threads[t].pc = "inserted"
    /\ lock' = RwLock_write_unlock(lock, t)
    /\ threads' = [threads EXCEPT ![t] = Idle("register_language", "Ok", NoSeen)]
    /\ UNCHANGED <<registry, refcount, regLog>>
    /\ ThreadFrame

\* get_language: LANGUAGES.read()
get_read(t, name) ==
    /\ threads[t].pc = "idle"
    /\ RwLock_read(lock, t).granted
    /\ lock' = RwLock_read(lock, t).lock
    /\ threads' = [threads EXCEPT ![t] = [pc |-> "get", op |-> "get_language", name |-> name]]
    /\ UNCHANGED <<registry, refcount, regLog>>
    /\ ThreadFrame

\* get_language: registry.get(&name) and the handle made from it; the read guard
\* goes out of scope on return
get_return(t) ==
    /\ threads[t].pc = "get"
    /\ lock' = RwLock_read_unlock(lock, t)
    /\ threads' = [threads EXCEPT ![t] =
                      IF get(registry, threads[t].name) = NoEntry
                      THEN Idle("get_language", "NotFoundError", NoSeen)
                      ELSE Idle("get_language", "Ok",
                                [name |-> threads[t].name,
                                 entry |-> get(registry, threads[t].name),
                                 log |-> regLog[threads[t].name]])]
    /\ UNCHANGED <<registry, refcount, regLog>>
    /\ ThreadFrame

\* list_languages: LANGUAGES.read()
list_read(t) ==
    /\ threads[t].pc = "idle"
    /\ RwLock_read(lock, t).granted
    /\ lock' = RwLock_read(lock, t).lock
    /\ threads' = [threads EXCEPT ![t] = [pc |-> "keys", op |-> "list_languages"]]
    /\ UNCHANGED <<registry, refcount, regLog>>
    /\ ThreadFrame

\* list_languages: registry.keys().cloned().collect(); the read guard goes out of
\* scope on return
list_return(t) ==
    /\ threads[t].pc = "keys"
    /\ lock' = RwLock_read_unlock(lock, t)
    /\ threads' = [threads EXCEPT ![t] =
                      Idle("list_languages", "Ok",
                           [keys |-> keys(registry),
                            torn |-> {n \in Names : registry[n] = Torn},
                            log |-> {n \in Names : regLog[n] # NoGrammar}])]
    /\ UNCHANGED <<registry, refcount, regLog>>
    /\ ThreadFrame

(***************************************************************************)
(* The parsing engine (crate tree_sitter), as the extension calls it       *)
(***************************************************************************)
\* the engine's tokens: "a" is one byte, "e" (e-acute) two, and a byte that
\* starts no character is an "ERROR" token of one byte
TokenWidth(tok) == IF tok = "e" THEN 2 ELSE 1

RECURSIVE Width(_)
Width(toks) == IF toks = <<>> THEN 0 ELSE TokenWidth(Head(toks)) + Width(Tail(toks))

RECURSIVE Lex(_)
Lex(bytes) ==
    IF bytes = <<>> THEN <<>>
    ELSE IF Head(bytes) = 97 THEN <<"a">> \o Lex(Tail(bytes))
    ELSE IF Head(bytes) = 195 /\ Len(bytes) >= 2 /\ bytes[2] = 169
         THEN <<"e">> \o Lex(Tail(Tail(bytes)))
    ELSE <<"ERROR">> \o Lex(Tail(bytes))

\* the source callback of a timed parse: the bytes from offset on
source_callback(source_bytes, offset) ==
    IF offset < Len(source_bytes)
    THEN SubSeq(source_bytes, offset + 1, Len(source_bytes))
    ELSE <<>>

\* A parse that continues from earlier work (a cancelled run it resumes, or an
\* unedited previous tree whose nodes it reuses by position) keeps the first j
\* tokens of that work and reads the text only from where they end.
Continued(base, source_bytes, j) ==
    SubSeq(base, 1, j) \o Lex(source_callback(source_bytes, Width(SubSeq(base, 1, j))))

\* the token sequences the engine can produce for source_bytes
EngineParses(pending, old_ts_tree, source_bytes) ==
    LET base == IF pending # NoPending THEN pending.tokens
                ELSE IF old_ts_tree # NoTree THEN old_ts_tree.tokens
                ELSE <<>>
    IN  {Continued(base, source_bytes, j) : j \in 0..Len(base)}

\* a tree_sitter::Tree
TsTree(language, toks) == [language |-> language, tokens |-> toks]

\* a tree_sitter::Node is a place in its tree: the root is <<>>, token i is
\* <<i>>, and the identifier inside an "a" expression is <<i, 1>>
TsNode(path) == [path |-> path]

ts_root_node(t) == TsNode(<<>>)

ts_child_count(t, n) ==
    IF n.path = <<>> THEN Len(t.tokens)
    ELSE IF Len(n.path) = 1 /\ t.tokens[n.path[1]] = "a" THEN 1
    ELSE 0

ts_kind(t, n) ==
    IF n.path = <<>> THEN "program"
    ELSE IF Len(n.path) = 2 THEN "identifier"
    ELSE IF t.tokens[n.path[1]] = "a" THEN "expression"
    ELSE t.tokens[n.path[1]]

\* the "e" token is anonymous; every other node is named
ts_is_named(t, n) == ts_kind(t, n) # "e"

ts_is_error(t, n) == ts_kind(t, n) = "ERROR"

ts_start_byte(t, n) ==
    IF n.path = <<>> THEN 0 ELSE Width(SubSeq(t.tokens, 1, n.path[1] - 1))

ts_end_byte(t, n) ==
    IF n.path = <<>> THEN Width(t.tokens) ELSE Width(SubSeq(t.tokens, 1, n.path[1]))

ts_children(t, n) == [i \in 1..ts_child_count(t, n) |-> TsNode(n.path \o <<i>>)]

ts_parent(t, n) ==
    IF n.path = <<>> THEN NoNode ELSE TsNode(SubSeq(n.path, 1, Len(n.path) - 1))

ts_child(t, n, index) ==
    IF index < ts_child_count(t, n) THEN TsNode(n.path \o <<index + 1>>) ELSE NoNode

ts_named_children(t, n) == SelectSeq(ts_children(t, n), LAMBDA c : ts_is_named(t, c))

ts_named_child_count(t, n) == Len(ts_named_children(t, n))

ts_named_child(t, n, index) ==
    IF index < ts_named_child_count(t, n) THEN ts_named_children(t, n)[index + 1]
    ELSE NoNode

\* the grammar names one field: the identifier of an expression is its "name"
ts_child_by_field_name(t, n, field) ==
    IF field = "name" /\ ts_kind(t, n) = "expression" THEN TsNode(n.path \o <<1>>)
    ELSE NoNode

\* the siblings after and before n, nearest first
SiblingsAfter(t, n) ==
    IF n.path = <<>> THEN <<>>
    ELSE LET sibs == ts_children(t, ts_parent(t, n))
         IN  SubSeq(sibs, n.path[Len(n.path)] + 1, Len(sibs))

SiblingsBefore(t, n) ==
    IF n.path = <<>> THEN <<>>
    ELSE LET sibs == ts_children(t, ts_parent(t, n))
             k == n.path[Len(n.path)] - 1
         IN  [i \in 1..k |-> sibs[k + 1 - i]]

FirstOf(seq) == IF seq = <<>> THEN NoNode ELSE Head(seq)

ts_next_sibling(t, n) == FirstOf(SiblingsAfter(t, n))

ts_prev_sibling(t, n) == FirstOf(SiblingsBefore(t, n))

ts_next_named_sibling(t, n) ==
    FirstOf(SelectSeq(SiblingsAfter(t, n), LAMBDA c : ts_is_named(t, c)))

ts_prev_named_sibling(t, n) ==
    FirstOf(SelectSeq(SiblingsBefore(t, n), LAMBDA c : ts_is_named(t, c)))

\* ts_node_descendant_for_byte_range: from n, step into the first child whose end
\* reaches range_end and lies past range_start, as long as that child starts at or
\* before range_start; the node where no such step is left is the answer
RECURSIVE ts_descendant_for_byte_range(_, _, _, _)
ts_descendant_for_byte_range(t, n, range_start, range_end) ==
    LET kids == ts_children(t, n)
        reach == {i \in 1..Len(kids) :
                     /\ ts_end_byte(t, kids[i]) >= range_end
                     /\ ts_end_byte(t, kids[i]) > range_start}
    IN  IF reach = {} THEN n
        ELSE LET first == kids[CHOOSE i \in reach : \A k \in reach : i <= k]
             IN  IF range_start < ts_start_byte(t, first) THEN n
                 ELSE ts_descendant_for_byte_range(t, first, range_start, range_end)

(***************************************************************************)
(* Tree (tree.rs)                                                          *)
(***************************************************************************)
\* Tree::new
Tree_new(ts_tree, source, name) ==
    [inner |-> ts_tree, source |-> source, language_name |-> name]

(***************************************************************************)
(* Parser (parser.rs)                                                      *)
(***************************************************************************)
\* the engine inside a Parser: its committed grammar and the parse it would resume
Engine(language, pending) == [language |-> language, pending |-> pending]

\* the progress callback answering Continue up to and including the budget
progress_callback_inclusive(elapsed, timeout) ==
    IF elapsed <= timeout THEN "Continue" ELSE "Break"

\* the progress callback of a timed parse
progress_callback(elapsed, timeout) ==
    IF elapsed < timeout THEN "Continue" ELSE "Break"

\* the elapsed times at which the engine may ask for progress in one parse
CheckTimes ==
    {s \in UNION {[1..n -> 0..MaxElapsed] : n \in 0..MaxChecks} :
        \A i \in 1..Len(s) - 1 : s[i] <= s[i + 1]}

\* the checks a timed parse performs: the engine stops asking at the first Break
Checks(times, timeout) ==
    LET answers == [i \in 1..Len(times) |->
                       [elapsed |-> times[i],
                        answer |-> progress_callback(times[i], timeout)]]
        breaks == {i \in 1..Len(times) : answers[i].answer = "Break"}
    IN  IF breaks = {} THEN answers
        ELSE SubSeq(answers, 1, CHOOSE i \in breaks : \A k \in breaks : i <= k)

Cancelled(checks) == \E i \in 1..Len(checks) : checks[i].answer = "Break"

\* the engine's set_language: it accepts a grammar whose ABI version is in its
\* range, commits to it and resets itself, and rejects any other unchanged
ts_parser_set_language(engine, language) ==
    IF language.module = "C"
    THEN [result |-> "LanguageError", engine |-> engine]
    ELSE [result |-> "Ok", engine |-> Engine(language, NoPending)]

\* set_language keeping the name recorded before
record_name_stale(old, name) == old

\* set_language records the name it resolved
record_name(old, name) == name

\* Parser::set_language(lang): lang is a name or a Language handle
set_language(name) ==
    /\ ~crashed
    /\ LET found == get_language_internal(name)
       IN  IF found.result # "Ok"
           THEN /\ ret' = [op |-> "set_language", name |-> name, result |-> found.result]
                /\ UNCHANGED <<language_name, inner>>
           ELSE LET set == ts_parser_set_language(inner, found.inner)
                IN  IF set.result # "Ok"
                    THEN /\ ret' = [op |-> "set_language", name |-> name,
                                    result |-> set.result]
                         /\ UNCHANGED <<language_name, inner>>
                    ELSE /\ inner' = set.engine
                         /\ language_name' = record_name(language_name, name)
                         /\ ret' = [op |-> "set_language", name |-> name,
                                    result |-> "Ok"]
    /\ UNCHANGED <<registry, refcount, regLog, lang, timeout_micros, sinceReset,
                   tree, node, crashed>>
    /\ UNCHANGED <<lock, threads>>

set_language_by_name == \E name \in Names : set_language(name)

set_language_by_handle == lang # NoLanguage /\ set_language(lang.name)

\* Parser::language()
Parser_language ==
    /\ ~crashed
    /\ IF language_name = NoName
       THEN ret' = [op |-> "Parser.language", result |-> "Ok", value |-> NoLanguage]
       ELSE LET found == get_language_internal(language_name)
            IN  IF found.result # "Ok"
                THEN ret' = [op |-> "Parser.language", result |-> found.result,
                             value |-> NoLanguage]
                ELSE ret' = [op |-> "Parser.language", result |-> "Ok",
                             value |-> Language(language_name, found.inner)]
    /\ UNCHANGED <<registry, refcount, regLog, lang, language_name, timeout_micros,
                   inner, sinceReset, tree, node, crashed>>
    /\ UNCHANGED <<lock, threads>>

\* a parse that skips the language check
has_language_unchecked(name) == TRUE

\* the language check of parse: a language name has been recorded
has_language(name) == name # NoName

\* what a parse can do with the engine's grammar: run, or, when the module of
\* that grammar is no longer mapped, also die reading it
EngineOutcomes(engine) ==
    IF engine.language # NoGrammar /\ ~Resident(engine.language.module)
    THEN {"run", "segfault"}
    ELSE {"run"}

\* Parser::parse(source, previous_tree): old_tree is the host's Tree or NoTree, and
\* times are the moments the engine would ask for progress
parse(source, old_tree, times) ==
    /\ ~crashed
    /\ IF ~has_language(language_name)
       THEN /\ ret' = [op |-> "parse", source |-> source, hinted |-> old_tree # NoTree,
                       result |-> "NoLanguageError", value |-> NoTree]
            /\ UNCHANGED <<inner, sinceReset, tree, node, crashed>>
       ELSE LET old_ts_tree == IF old_tree = NoTree THEN NoTree ELSE old_tree.inner
                timed == timeout_micros > 0
                checks == IF timed THEN Checks(times, timeout_micros) ELSE <<>>
            IN  /\ timed \/ times = <<>>
                /\ Len(checks) = Len(times)
                /\ \E outcome \in EngineOutcomes(inner),
                      toks \in EngineParses(inner.pending, old_ts_tree, source) :
                      IF outcome = "segfault"
                      THEN /\ ret' = [op |-> "parse", source |-> source,
                                      hinted |-> old_tree # NoTree,
                                      result |-> "segfault", value |-> NoTree]
                           /\ crashed' = TRUE
                           /\ UNCHANGED <<inner, sinceReset, tree, node>>
                      ELSE /\ IF Cancelled(checks)
                              THEN /\ inner' = Engine(inner.language, [tokens |-> toks])
                                   /\ ret' = [op |-> "parse", source |-> source,
                                              hinted |-> old_tree # NoTree,
                                              mode |-> "timed", checks |-> checks,
                                              result |-> "None", value |-> NoTree]
                                   /\ UNCHANGED <<tree, node>>
                              ELSE LET made == Tree_new(TsTree(inner.language, toks),
                                                        source, language_name)
                                   IN  /\ inner' = Engine(inner.language, NoPending)
                                       /\ ret' = [op |-> "parse", source |-> source,
                                                  hinted |-> old_tree # NoTree,
                                                  mode |-> IF timed THEN "timed"
                                                           ELSE "direct",
                                                  checks |-> checks,
                                                  result |-> "Tree", value |-> made]
                                       /\ tree' = made
                                       /\ node' = NoNode
                           /\ sinceReset' =
                                 IF sinceReset = "discarded" THEN "parsed_after_discard"
                                 ELSE IF sinceReset = "reset" THEN "parsed_after_reset"
                                 ELSE "none"
                           /\ UNCHANGED crashed
    /\ UNCHANGED <<registry, refcount, regLog, lang, language_name, timeout_micros>>
    /\ UNCHANGED <<lock, threads>>

\* Parser::timeout_micros()
get_timeout_micros ==
    /\ ~crashed
    /\ ret' = [op |-> "timeout_micros", result |-> "Ok", value |-> timeout_micros]
    /\ UNCHANGED <<registry, refcount, regLog, lang, language_name, timeout_micros,
                   inner, sinceReset, tree, node, crashed>>
    /\ UNCHANGED <<lock, threads>>

\* Parser::set_timeout_micros(timeout)
set_timeout_micros(timeout) ==
    /\ ~crashed
    /\ timeout_micros' = timeout
    /\ ret' = [op |-> "set_timeout_micros", timeout |-> timeout, result |-> "Ok"]
    /\ UNCHANGED <<registry, refcount, regLog, lang, language_name, inner,
                   sinceReset, tree, node, crashed>>
    /\ UNCHANGED <<lock, threads>>

\* the engine's reset: the parse it would resume is discarded
ts_parser_reset(engine) == Engine(engine.language, NoPending)

\* a reset() that replaces the engine by a new one
reset_recreate ==
    /\ ~crashed
    /\ inner' = Engine(NoGrammar, NoPending)
    /\ sinceReset' = IF inner.pending # NoPending THEN "discarded" ELSE "reset"
    /\ ret' = [op |-> "reset", result |-> "Ok"]
    /\ UNCHANGED <<registry, refcount, regLog, lang, language_name, timeout_micros,
                   tree, node, crashed>>
    /\ UNCHANGED <<lock, threads>>

\* Parser::reset()
reset ==
    /\ ~crashed
    /\ inner' = ts_parser_reset(inner)
    /\ sinceReset' = IF inner.pending # NoPending THEN "discarded" ELSE "reset"
    /\ ret' = [op |-> "reset", result |-> "Ok"]
    /\ UNCHANGED <<registry, refcount, regLog, lang, language_name, timeout_micros,
                   tree, node, crashed>>
    /\ UNCHANGED <<lock, threads>>

\* Tree::language answering with the grammar the tree was parsed with
Tree_language_pinned ==
    /\ ~crashed
    /\ tree # NoTree
    /\ ret' = [op |-> "Tree.language", result |-> "Ok",
               value |-> Language(tree.language_name, tree.inner.language)]
    /\ UNCHANGED <<registry, refcount, regLog, lang, language_name, timeout_micros,
                   inner, sinceReset, tree, node, crashed>>
    /\ UNCHANGED <<lock, threads>>

\* Tree::language()
Tree_language ==
    /\ ~crashed
    /\ tree # NoTree
    /\ LET found == get_language_internal(tree.language_name)
       IN  IF found.result # "Ok"
           THEN ret' = [op |-> "Tree.language", result |-> found.result,
                        value |-> NoLanguage]
           ELSE ret' = [op |-> "Tree.language", result |-> "Ok",
                        value |-> Language(tree.language_name, found.inner)]
    /\ UNCHANGED <<registry, refcount, regLog, lang, language_name, timeout_micros,
                   inner, sinceReset, tree, node, crashed>>
    /\ UNCHANGED <<lock, threads>>

\* Tree::source()
Tree_source ==
    /\ ~crashed
    /\ tree # NoTree
    /\ ret' = [op |-> "Tree.source", result |-> "Ok", value |-> tree.source]
    /\ UNCHANGED <<registry, refcount, regLog, lang, language_name, timeout_micros,
                   inner, sinceReset, tree, node, crashed>>
    /\ UNCHANGED <<lock, threads>>

(***************************************************************************)
(* Node (node.rs)                                                          *)
(***************************************************************************)
\* Node::new: the byte range and the properties are copied from the engine's
\* node; ts is history (the engine's node the handle was made from)
Node_new(ts_node, source, t) ==
    [tree |-> t,
     source |-> source,
     start_byte |-> ts_start_byte(t, ts_node),
     end_byte |-> ts_end_byte(t, ts_node),
     kind |-> ts_kind(t, ts_node),
     is_named |-> ts_is_named(t, ts_node),
     is_error |-> ts_is_error(t, ts_node),
     child_count |-> ts_child_count(t, ts_node),
     named_child_count |-> ts_named_child_count(t, ts_node),
     ts |-> ts_node]

\* Tree::root_node
Tree_root_node(t) == Node_new(ts_root_node(t.inner), t.source, t.inner)

\* Node::get_ts_node and get_ts_node_pub: relocate the handle in its tree
get_ts_node(n) ==
    ts_descendant_for_byte_range(n.tree, ts_root_node(n.tree), n.start_byte, n.end_byte)

\* .map(|n| Node::new(n, self.source.clone(), self.tree.clone()))
MapNode(n, found) == IF found = NoNode THEN NoNode ELSE Node_new(found, n.source, n.tree)

NavOps ==
    {"parent", "child", "named_child", "child_by_field_name", "next_sibling",
     "prev_sibling", "next_named_sibling", "prev_named_sibling"}

ListOps == {"children", "named_children"}

QueryOps == {"matches", "captures"}

FieldNames == {"name", "body"}

\* a navigation that unwraps the relocated node
navigate_unwrap(n, located, op, index, field) ==
    IF located = NoNode THEN [panic |-> "unwrap on None"]
    ELSE IF op = "parent" THEN MapNode(n, ts_parent(n.tree, located))
    ELSE MapNode(n, ts_child(n.tree, located, index))

\* parent, child, named_child, child_by_field_name and the four sibling methods:
\* located is what get_ts_node answered, and `?` returns None when it is None
navigate(n, located, op, index, field) ==
    IF located = NoNode THEN NoNode
    ELSE IF op = "parent" THEN MapNode(n, ts_parent(n.tree, located))
    ELSE IF op = "child" THEN MapNode(n, ts_child(n.tree, located, index))
    ELSE IF op = "named_child" THEN MapNode(n, ts_named_child(n.tree, located, index))
    ELSE IF op = "child_by_field_name"
         THEN MapNode(n, ts_child_by_field_name(n.tree, located, field))
    ELSE IF op = "next_sibling" THEN MapNode(n, ts_next_sibling(n.tree, located))
    ELSE IF op = "prev_sibling" THEN MapNode(n, ts_prev_sibling(n.tree, located))
    ELSE IF op = "next_named_sibling"
         THEN MapNode(n, ts_next_named_sibling(n.tree, located))
    ELSE MapNode(n, ts_prev_named_sibling(n.tree, located))

\* children and named_children: an array, empty when relocation finds nothing
list_children(n, located, op) ==
    IF located = NoNode THEN <<>>
    ELSE LET found == IF op = "children" THEN ts_children(n.tree, located)
                      ELSE ts_named_children(n.tree, located)
         IN  [i \in 1..Len(found) |-> Node_new(found[i], n.source, n.tree)]

\* str::is_char_boundary: 0, the length, or a byte that is no continuation byte
is_char_boundary(str, index) ==
    \/ index = 0
    \/ index = Len(str)
    \/ index < Len(str) /\ (str[index + 1] < 128 \/ str[index + 1] >= 192)

\* &str[start..end], which panics off a character boundary
slice(str, start, end) ==
    IF start <= end /\ end <= Len(str)
       /\ is_char_boundary(str, start) /\ is_char_boundary(str, end)
    THEN [result |-> "Ok", value |-> SubSeq(str, start + 1, end)]
    ELSE [result |-> "panic", value |-> <<>>]

\* Node::text
text(n) ==
    IF n.end_byte <= Len(n.source) THEN slice(n.source, n.start_byte, n.end_byte)
    ELSE [result |-> "Ok", value |-> <<>>]

\* Node::eq also asking for the same Tree
eq_same_tree(a, b) ==
    /\ a.tree = b.tree
    /\ a.start_byte = b.start_byte /\ a.end_byte = b.end_byte /\ a.kind = b.kind

\* Node::eq
eq(a, b) ==
    a.start_byte = b.start_byte /\ a.end_byte = b.end_byte /\ a.kind = b.kind

\* the Nodes the host can reach from a set of Nodes by navigation calls
RECURSIVE ReachFrom(_, _)
ReachFrom(S, calls) ==
    LET step == {navigate(n, get_ts_node(n), c.op, c.index, c.field) :
                    n \in S, c \in calls} \ {NoNode}
    IN  IF step \subseteq S THEN S ELSE ReachFrom(S \cup step, calls)

(***************************************************************************)
(* Query and QueryCursor (query.rs)                                        *)
(***************************************************************************)
\* a compiled query: one pattern "(kind) @name" per entry
Query(kinds, names) == [patterns |-> kinds, capture_names |-> names]

Queries ==
    {Query(<<"identifier">>, <<"id">>), Query(<<"expression", "e">>, <<"expr", "tok">>)}

\* the nodes at and below n, in document order
RECURSIVE Descendants(_, _)
Descendants(t, n) ==
    LET kids == ts_children(t, n)
        Below[i \in 0..Len(kids)] ==
            IF i = 0 THEN <<>> ELSE Below[i - 1] \o Descendants(t, kids[i])
    IN  <<n>> \o Below[Len(kids)]

\* the engine's matches at and below a node: per node, the patterns of its kind
ts_matches(query, t, n) ==
    LET nodes == Descendants(t, n)
        np == Len(query.patterns)
        all == [k \in 1..(Len(nodes) * np) |->
                   [pattern_index |-> (k - 1) % np,
                    node |-> nodes[((k - 1) \div np) + 1]]]
    IN  SelectSeq(all, LAMBDA m :
            query.patterns[m.pattern_index + 1] = ts_kind(t, m.node))

QueryCapture(name, n) == [name |-> name, node |-> n]

QueryMatch(pattern_index, captures) ==
    [pattern_index |-> pattern_index, captures |-> captures]

\* QueryCursor::matches
matches(query, n, located) ==
    IF located = NoNode THEN <<>>
    ELSE LET found == ts_matches(query, n.tree, located)
         IN  [i \in 1..Len(found) |->
                 QueryMatch(found[i].pattern_index,
                     <<QueryCapture(query.capture_names[found[i].pattern_index + 1],
                                    Node_new(found[i].node, n.source, n.tree))>>)]

\* QueryCursor::captures
captures(query, n, located) ==
    IF located = NoNode THEN <<>>
    ELSE LET found == ts_matches(query, n.tree, located)
         IN  [i \in 1..Len(found) |->
                 QueryCapture(query.capture_names[found[i].pattern_index + 1],
                              Node_new(found[i].node, n.source, n.tree))]

(***************************************************************************)
(* The host's calls on the Tree and the Node it holds                      *)
(***************************************************************************)
NodeFrame ==
    UNCHANGED <<registry, refcount, regLog, lang, language_name, timeout_micros,
                inner, sinceReset, tree, crashed, lock, threads>>

\* tree.root_node
RootNode ==
    /\ ~crashed
    /\ tree # NoTree
    /\ node' = Tree_root_node(tree)
    /\ ret' = [op |-> "root_node", result |-> "Ok"]
    /\ NodeFrame

\* node.<op>: the host goes on with the node it gets, if it gets one
Navigate(located, op, index, field) ==
    /\ ~crashed
    /\ node # NoNode
    /\ LET got == navigate(node, located, op, index, field)
       IN  /\ ret' = [op |-> op, missed |-> located = NoNode, index |-> index,
                      field |-> field, result |-> "Ok", value |-> got]
           /\ node' = IF got = NoNode THEN node ELSE got
    /\ NodeFrame

\* node.children / node.named_children: the host goes on with any of them or stays
ListChildren(located, op) ==
    /\ ~crashed
    /\ node # NoNode
    /\ LET got == list_children(node, located, op)
       IN  /\ ret' = [op |-> op, missed |-> located = NoNode, result |-> "Ok",
                      value |-> got]
           /\ node' \in {node} \cup {got[i] : i \in 1..Len(got)}
    /\ NodeFrame

\* node.text
Text ==
    /\ ~crashed
    /\ node # NoNode
    /\ ret' = [op |-> "text", result |-> text(node).result, value |-> text(node).value]
    /\ UNCHANGED node
    /\ NodeFrame

\* cursor.matches(query, node, source) and cursor.captures(query, node, source):
\* the host goes on with a captured node or stays
RunQuery(located, op, query) ==
    /\ ~crashed
    /\ node # NoNode
    /\ LET got == IF op = "matches" THEN matches(query, node, located)
                  ELSE captures(query, node, located)
           caught == {IF op = "matches" THEN got[i].captures[1].node ELSE got[i].node :
                         i \in 1..Len(got)}
       IN  /\ ret' = [op |-> op, missed |-> located = NoNode, result |-> "Ok",
                      value |-> got]
           /\ node' \in {node} \cup caught
    /\ NodeFrame

\* node == other
Eq(other) ==
    /\ ~crashed
    /\ node # NoNode
    /\ ret' = [op |-> "eq", other |-> other, result |-> "Ok",
               value |-> eq(node, other), reverse |-> eq(other, node)]
    /\ UNCHANGED node
    /\ NodeFrame

(***************************************************************************)
(* Specifications                                                          *)
(***************************************************************************)
Init ==
    /\ registry = [n \in Names |-> NoEntry]
    /\ refcount = [p \in Paths |-> 0]
    /\ regLog = [n \in Names |-> NoGrammar]
    /\ lang = NoLanguage
    /\ language_name = NoName
    /\ timeout_micros = 0
    /\ inner = Engine(NoGrammar, NoPending)
    /\ sinceReset = "none"
    /\ tree = NoTree
    /\ node = NoNode
    /\ ret = [op |-> "new"]
    /\ crashed = FALSE
    /\ lock = RwLock_new
    /\ threads = [t \in Threads |-> Idle("new", "Ok", NoSeen)]

\* the registry with a parser and a tree that name its languages
NextRegistry ==
    \/ \E name \in Names, path \in Paths : register_language(name, path)
    \/ \E name \in Names : get_language(name)
    \/ list_languages
    \/ ForgetLanguage
    \/ set_language_by_name
    \/ set_language_by_handle
    \/ Parser_language
    \/ \E source \in {CharA} : parse(source, NoTree, <<>>)
    \/ Tree_language

SpecRegistry == Init /\ [][NextRegistry]_vars

\* a Tree that another Parser of the host made, once "x" is registered
OtherTrees ==
    IF registry["x"] = NoEntry THEN {}
    ELSE {Tree_new(TsTree(registry["x"].language, Lex(CharA)), CharA, "x")}

\* the previous tree the host can pass: its own Tree, or before it has one a Tree
\* of another Parser
Hints == IF tree = NoTree THEN OtherTrees ELSE {tree}

\* one parser with its timeout, its resume state and previous-tree hints
NextParser ==
    \/ register_language("x", "A")
    \/ \E name \in Names : set_language(name)
    \/ Parser_language
    \/ \E t \in 0..MaxTimeout : set_timeout_micros(t)
    \/ get_timeout_micros
    \/ \E source \in ShortSources, old_tree \in {NoTree} \cup Hints, times \in CheckTimes :
          parse(source, old_tree, times)
    \/ reset

SpecParser == Init /\ [][NextParser]_vars

\* the navigation calls the host makes: an index for child and named_child, a
\* field name for child_by_field_name
NavCalls ==
    {[op |-> op, index |-> i, field |-> ""] :
        op \in {"child", "named_child"}, i \in 0..MaxLen}
    \cup {[op |-> "child_by_field_name", index |-> 0, field |-> f] : f \in FieldNames}
    \cup {[op |-> op, index |-> 0, field |-> ""] :
        op \in NavOps \ {"child", "named_child", "child_by_field_name"}}

\* trees of every source, with previous-tree hints, and the nodes reached in them
NextNode ==
    \/ register_language("x", "A")
    \/ set_language("x")
    \/ \E source \in Sources, old_tree \in {NoTree, tree} : parse(source, old_tree, <<>>)
    \/ RootNode
    \/ Text
    \/ node # NoNode /\ \E call \in NavCalls :
          Navigate(get_ts_node(node), call.op, call.index, call.field)
    \/ node # NoNode /\ \E op \in ListOps : ListChildren(get_ts_node(node), op)
    \/ node # NoNode /\ \E op \in QueryOps, query \in Queries :
          RunQuery(get_ts_node(node), op, query)

SpecNode == Init /\ [][NextNode]_vars

\* as SpecNode, over trees parsed without a hint, where the engine's range search
\* may also answer that it found no node
NextMiss ==
    \/ register_language("x", "A")
    \/ set_language("x")
    \/ \E source \in Sources : parse(source, NoTree, <<>>)
    \/ RootNode
    \/ node # NoNode /\ \E located \in {get_ts_node(node), NoNode}, call \in NavCalls :
          Navigate(located, call.op, call.index, call.field)
    \/ node # NoNode /\ \E located \in {get_ts_node(node), NoNode}, op \in ListOps :
          ListChildren(located, op)
    \/ node # NoNode /\ \E located \in {get_ts_node(node), NoNode}, op \in QueryOps,
                           query \in Queries :
          RunQuery(located, op, query)

SpecMiss == Init /\ [][NextMiss]_vars

\* three host threads in the registry calls
NextThreads ==
    \E t \in Threads :
        \/ \E name \in Names, path \in Paths : register_load(t, name, path)
        \/ register_write(t)
        \/ register_insert_begin(t)
        \/ register_insert_end(t)
        \/ register_return(t)
        \/ \E name \in Names : get_read(t, name)
        \/ get_return(t)
        \/ list_read(t)
        \/ list_return(t)

SpecThreads == Init /\ [][NextThreads]_vars

\* one parser against a registry that changes under it
NextCommit ==
    \/ \E name \in Names, path \in Paths : register_language(name, path)
    \/ \E name \in Names : get_language(name)
    \/ set_language_by_name
    \/ set_language_by_handle
    \/ Parser_language
    \/ \E t \in 0..MaxTimeout : set_timeout_micros(t)
    \/ \E times \in CheckTimes : parse(CharA, NoTree, times)

SpecCommit == Init /\ [][NextCommit]_vars

\* the Nodes a host can hold: those of its Tree and those of another Parser's Tree
HeldNodes ==
    UNION {ReachFrom({Tree_root_node(t)}, NavCalls) :
              t \in (IF tree = NoTree THEN {} ELSE {tree}) \cup OtherTrees}

\* nodes reached by navigation, compared with nodes of the same and of another Tree
NextEq ==
    \/ register_language("x", "A")
    \/ set_language("x")
    \/ \E source \in Sources : parse(source, NoTree, <<>>)
    \/ RootNode
    \/ node # NoNode /\ \E call \in NavCalls :
          Navigate(get_ts_node(node), call.op, call.index, call.field)
    \/ \E other \in HeldNodes : Eq(other)

SpecEq == Init /\ [][NextEq]_vars

(***************************************************************************)
(* Properties                                                              *)
(***************************************************************************)
\* C1: relocating a Node in its own tree yields the engine node it was made
\* from, a node of the Node's kind, whatever the shape of the tree.
C1_RelocationYieldsOrigin ==
    node # NoNode =>
        /\ get_ts_node(node) = node.ts
        /\ ts_kind(node.tree, get_ts_node(node)) = node.kind

\* C2: no module is released while a grammar handle obtained from it is live,
\* be it the host's Language or the grammar committed in the Parser.
C2_NoReleaseWhileLive ==
    /\ lang # NoLanguage => Resident(lang.inner.module)
    /\ inner.language # NoGrammar => Resident(inner.language.module)

\* C3: parse on a Parser whose language was never set fails with the no-language
\* error, makes no Tree, and leaves the language, the timeout and the engine as
\* they were, with any timeout and with or without a previous tree.
C3_ParseWithoutLanguage ==
    [][(ret'.op = "parse" /\ language_name = NoName) =>
          /\ ret'.result = "NoLanguageError"
          /\ ret'.value = NoTree
          /\ UNCHANGED <<language_name, timeout_micros, inner, tree>>]_vars

C3_Witness ==
    /\ ret.op = "parse"
    /\ ret.result = "NoLanguageError"
    /\ ret.hinted
    /\ timeout_micros > 0

\* C4: registration is last-write-wins per name: every name resolves to the
\* grammar of its most recent successful register (and to not-found before one),
\* a lookup returns that grammar, and list() yields each registered name once.
C4_LastWriteWins ==
    /\ \A n \in Names :
          get_language_internal(n) =
              IF regLog[n] = NoGrammar
              THEN [result |-> "NotFoundError", inner |-> NoGrammar]
              ELSE [result |-> "Ok", inner |-> regLog[n]]
    /\ ret.op = "get_language" =>
          ret.value = IF regLog[ret.name] = NoGrammar THEN NoLanguage
                      ELSE Language(ret.name, regLog[ret.name])
    /\ ret.op = "list_languages" =>
          /\ {ret.value[i] : i \in 1..Len(ret.value)} = {n \in Names : regLog[n] # NoGrammar}
          /\ Len(ret.value) = Cardinality({n \in Names : regLog[n] # NoGrammar})

\* "x" was registered from A (the Parser still holds that grammar), then from B,
\* and a lookup returns B's
C4_Witness ==
    /\ ret.op = "get_language"
    /\ ret.result = "Ok"
    /\ ret.value = Language("x", LanguageFn("B", "x"))
    /\ inner.language = LanguageFn("A", "x")
    /\ registry["y"] # NoEntry

\* the bytes of str from start up to end, as far as str has them
ByteSlice(str, start, end) ==
    SubSeq(str, start + 1, IF end <= Len(str) THEN end ELSE Len(str))

\* C5: for a Node reached in a Tree that parse returned, text() is the slice of
\* the Tree's source from start_byte to end_byte.
C5_TextIsSourceSlice ==
    ret.op = "text" =>
        /\ ret.result = "Ok"
        /\ ret.value = ByteSlice(tree.source, node.start_byte, node.end_byte)

\* C6: text() never fails: it is the empty string when the byte range reaches
\* past the Node's source, and the bytes of the range otherwise.
C6_TextNeverFails ==
    ret.op = "text" =>
        /\ ret.result = "Ok"
        /\ ret.value = IF node.end_byte > Len(node.source) THEN <<>>
                       ELSE SubSeq(node.source, node.start_byte + 1, node.end_byte)

\* the navigation has no target: the parent of the root, or a child index that
\* is not below the number of children
NoTarget(n, op, index) ==
    \/ op = "parent" /\ get_ts_node(n) = ts_root_node(n.tree)
    \/ op = "child" /\ index >= ts_child_count(n.tree, get_ts_node(n))

C8_TimeoutGatesParse ==
    (ret.op = "parse" /\ ret.result \in {"Tree", "None"}) =>
        /\ timeout_micros = 0 =>
              ret.mode = "direct" /\ ret.checks = <<>> /\ ret.result = "Tree"
        /\ timeout_micros > 0 =>
              /\ ret.mode = "timed"
              /\ \A i \in 1..Len(ret.checks) :
                    ret.checks[i].answer = "Continue"
                        <=> ret.checks[i].elapsed < timeout_micros
              /\ Cancelled(ret.checks) => ret.result = "None" /\ ret.value = NoTree
              /\ ~Cancelled(ret.checks) => ret.result = "Tree"

\* a timed parse was let continue once and then stopped
C8_Witness ==
    /\ ret.op = "parse"
    /\ ret.result = "None"
    /\ Len(ret.checks) = 2
    /\ ret.checks[1].answer = "Continue"
    /\ ret.checks[2].answer = "Break"

\* C9: reset() leaves the committed language and the timeout as they were and
\* discards the parse the engine would resume, so that the next parse (given no
\* previous tree) is the parse of its source alone.
C9_ResetKeepsSettings ==
    [][/\ ret'.op = "reset" =>
             /\ UNCHANGED <<language_name, timeout_micros>>
             /\ inner'.language = inner.language
             /\ inner'.pending = NoPending
       /\ (sinceReset \in {"reset", "discarded"} /\ ret'.op = "parse"
              /\ ret'.result = "Tree" /\ ~ret'.hinted) =>
             ret'.value.inner.tokens = Lex(ret'.source)]_vars

\* a cancelled parse was discarded by reset(), and the next parse returned a Tree
C9_Witness ==
    /\ sinceReset = "parsed_after_discard"
    /\ ret.op = "parse"
    /\ ret.result = "Tree"
    /\ ~ret.hinted
    /\ timeout_micros > 0

\* C10: language() of a Tree and of a Parser resolves the recorded name in the
\* registry when it is called: it returns the grammar registered last under that
\* name, also when that is not the grammar in use, and it does not fail.
C10_LanguageResolvedAtCall ==
    /\ ret.op = "Tree.language" =>
          /\ ret.result = "Ok"
          /\ ret.value = Language(tree.language_name, regLog[tree.language_name])
    /\ (ret.op = "Parser.language" /\ language_name # NoName) =>
          /\ ret.result = "Ok"
          /\ ret.value = Language(language_name, regLog[language_name])

\* a Tree parsed with one grammar, in a Parser committed to it, answers with the
\* grammar registered since
C10_Witness ==
    /\ ret.op = "Tree.language"
    /\ ret.result = "Ok"
    /\ ret.value.inner # tree.inner.language
    /\ inner.language = tree.inner.language

\* C11: with several threads in register, lookup and list, readers may hold the
\* registry together, a register holds it alone from before its insertion begins
\* until after it ends (no reader, no other writer), and no lookup or list sees a
\* torn entry: each returns what the registrations completed so far put there.
C11_RegistryLockDiscipline ==
    /\ lock.writer # NoWriter => lock.readers = {}
    /\ \A t \in Threads :
          threads[t].pc \in {"insert", "inserting", "inserted"} =>
              lock.writer = t /\ lock.readers = {}
    /\ \A t \in Threads : threads[t].pc \in {"get", "keys"} => t \in lock.readers
    /\ \A n \in Names :
          registry[n] = Torn =>
              \E t \in Threads : threads[t].pc = "inserting" /\ threads[t].name = n
    /\ \A t \in Threads :
          (threads[t].pc = "idle" /\ threads[t].seen # NoSeen) =>
              IF threads[t].op = "get_language"
              THEN /\ threads[t].seen.entry # Torn
                   /\ threads[t].seen.entry.language = threads[t].seen.log
              ELSE /\ threads[t].seen.torn = {}
                   /\ threads[t].seen.keys = threads[t].seen.log

\* a lookup and a list hold the registry together while a register of a name
\* that is already registered waits for it
C11_Witness ==
    \E t1, t2, t3 \in Threads :
        /\ threads[t1].pc = "get"
        /\ threads[t2].pc = "keys"
        /\ threads[t3].pc = "write"
        /\ lock.readers = {t1, t2}
        /\ registry[threads[t3].name] # NoEntry

\* C12 as stated: set_language with a name the registry does not hold fails with
\* the not-found error and leaves the recorded name, the engine and the timeout
\* as they were; with a registered name it commits the engine to the registered
\* grammar and records the name, and language() then answers with that name.
C12_SetLanguageCommits ==
    [][/\ ret'.op = "set_language" =>
             LET found == get_language_internal(ret'.name)
             IN  /\ found.result = "NotFoundError" =>
                       /\ ret'.result = "NotFoundError"
                       /\ UNCHANGED <<language_name, inner, timeout_micros>>
                 /\ found.result = "Ok" =>
                       /\ ret'.result = "Ok"
                       /\ language_name' = ret'.name
                       /\ inner'.language = found.inner
                       /\ UNCHANGED timeout_micros
       /\ (ret'.op = "Parser.language" /\ language_name # NoName) =>
             /\ ret'.result = "Ok"
             /\ ret'.value.name = language_name]_vars

\* C12 amended: as above, but a registered grammar the engine rejects (module "C",
\* an ABI version out of its range) makes set_language fail with the engine's
\* error and leaves the recorded name, the engine and the timeout as they were.
C12_SetLanguageCommitsAccepted ==
    [][/\ ret'.op = "set_language" =>
             LET found == get_language_internal(ret'.name)
             IN  /\ found.result = "NotFoundError" =>
                       /\ ret'.result = "NotFoundError"
                       /\ UNCHANGED <<language_name, inner, timeout_micros>>
                 /\ (found.result = "Ok" /\ found.inner.module # "C") =>
                       /\ ret'.result = "Ok"
                       /\ language_name' = ret'.name
                       /\ inner'.language = found.inner
                       /\ inner'.pending = NoPending
                       /\ UNCHANGED timeout_micros
                 /\ (found.result = "Ok" /\ found.inner.module = "C") =>
                       /\ ret'.result = "LanguageError"
                       /\ UNCHANGED <<language_name, inner, timeout_micros>>
       /\ (ret'.op = "Parser.language" /\ language_name # NoName) =>
             /\ ret'.result = "Ok"
             /\ ret'.value.name = language_name]_vars

\* a parser committed to "y", with a timeout, was pointed at "x" while "x" was
\* registered with the grammar the engine rejects
C12_Witness ==
    /\ ret.op = "set_language"
    /\ ret.name = "x"
    /\ ret.result = "LanguageError"
    /\ language_name = "y"
    /\ timeout_micros > 0

\* C13: a == b holds exactly when the two Nodes have the same start byte, end
\* byte and kind, in the same Tree or not; so == is reflexive, symmetric and
\* transitive, and a Node equals the Node made again from the same place of the
\* same Tree.
C13_EqIsStructural ==
    /\ ret.op = "eq" =>
          /\ ret.value <=> /\ node.start_byte = ret.other.start_byte
                           /\ node.end_byte = ret.other.end_byte
                           /\ node.kind = ret.other.kind
          /\ ret.value = ret.reverse
          /\ (ret.other.tree = node.tree /\ ret.other.ts = node.ts) => ret.value
    /\ node # NoNode => eq(node, node)
    /\ \A a, b, c \in HeldNodes : (eq(a, b) /\ eq(b, c)) => eq(a, c)

\* a Node was found equal to a Node of another Tree, parsed from another source
C13_Witness ==
    /\ ret.op = "eq"
    /\ ret.value
    /\ ret.other.tree # node.tree
    /\ ret.other.source # node.source
    /\ node.kind = "expression"

\* C14: every Tree that parse returns holds the source given to that call, the
\* name and grammar the parser was committed to at that call, and the engine's
\* parse of that source alone, whatever the parser did before (a cancelled timed
\* parse not followed by reset(), a previous-tree hint).
C14_TreeMatchesSource ==
    (ret.op = "parse" /\ ret.result = "Tree") =>
        /\ tree = ret.value
        /\ tree.source = ret.source
        /\ tree.language_name = language_name
        /\ tree.inner.language = inner.language
        /\ tree.inner.tokens = Lex(ret.source)

\* C15: a register call fails exactly when the module cannot be loaded or lacks
\* the entry symbol, and a failed call leaves the registry as it was: every name
\* resolves as before, list() yields the same names, and no registered module is
\* unloaded.
C15_FailedRegisterKeepsRegistry ==
    [][ret'.op = "register_language" =>
          /\ ret'.result = "LoadError" <=> ~Loadable(ret'.path)
          /\ ret'.result = "SymbolError" <=>
                (Loadable(ret'.path) /\ ret'.name \notin Exports(ret'.path))
          /\ ret'.result # "Ok" =>
                /\ \A n \in Names : get(registry', n) = get(registry, n)
                /\ keys(registry') = keys(registry)
                /\ \A p \in Paths : refcount'[p] = refcount[p]]_vars

\* a register under a name that is already registered failed on the entry symbol,
\* and the name still resolves
C15_Witness ==
    /\ ret.op = "register_language"
    /\ ret.result = "SymbolError"
    /\ registry[ret.name] # NoEntry
    /\ \E n \in Names \ {ret.name} : registry[n] # NoEntry

\* C16: no step takes a name out of the registry, so the name a Parser recorded
\* and the name a Tree recorded stay registered, and Parser.language() and
\* Tree.language() never fail with the not-found error.
C16_RecordedNamesStayRegistered ==
    [][/\ keys(registry) \subseteq keys(registry')
       /\ language_name' # NoName => get(registry', language_name') # NoEntry
       /\ tree' # NoTree => get(registry', tree'.language_name) # NoEntry
       /\ ret'.op \in {"Parser.language", "Tree.language"} =>
             ret'.result = "Ok"]_vars

\* a Tree parsed under one name answered language() after the Parser had moved to
\* another name and the Tree's name had been registered again
C16_Witness ==
    /\ ret.op = "Tree.language"
    /\ ret.result = "Ok"
    /\ language_name # NoName
    /\ language_name # tree.language_name
    /\ ret.value.inner # tree.inner.language

====
